---- MODULE Spec2Model ----
(***************************************************************************)
(* Background Removal API (app/main.py, app/utils.py, app/models.py).      *)
(*                                                                         *)
(* The model follows the request-processing pipeline of the service:       *)
(*   startup_event -> validate_image -> run_in_executor(executor, ...)     *)
(*   -> process_image_sync on a pool thread -> response assembly,          *)
(* together with shutdown_event.  Strings are tuples of one-character      *)
(* strings so that lower(), split('.') and startswith() are computed.      *)
(* Image bytes are abstracted to their length and to what the external     *)
(* engine and codec do with them.  GET /health is modelled by             *)
(* health_check, the OPTIONS handlers by the constant answer they return,  *)
(* and the counters engine_calls and save_calls record the work of each    *)
(* unit.                                                                   *)
(***************************************************************************)
EXTENDS Integers, Sequences, FiniteSets, TLC

(***************************************************************************)
(* Bounds of the model.                                                    *)
(***************************************************************************)
\* number of concurrent requests of the pool specification
NumRequests == 5
\* number of GET /health requests of a probed run and of OPTIONS requests of a
\* preflight run
NumProbes == 2
\* largest of the consecutive upload sizes of a ratio run
MaxSize == 16

(***************************************************************************)
(* Program constants.                                                      *)
(***************************************************************************)
\* main.py:80  ThreadPoolExecutor(max_workers=4)
max_workers == 4
\* utils.py:10  MAX_FILE_SIZE = 10 * 1024 * 1024
MAX_FILE_SIZE == 10 * 1024 * 1024

\* Python's None for an Optional[str]
None == <<"<None>">>

\* utils.py:9
ALLOWED_EXTENSIONS ==
    { <<".", "j", "p", "g">>, <<".", "j", "p", "e", "g">>, <<".", "p", "n", "g">>,
      <<".", "b", "m", "p">>, <<".", "t", "i", "f", "f">>, <<".", "w", "e", "b", "p">> }

(***************************************************************************)
(* str helpers: lower(), split('.')[-1], startswith()                      *)
(***************************************************************************)
\* the cased letters of the model's alphabet: the ASCII letters and, of the
\* letters beyond ASCII that str.lower() also lowers, the two used in filenames
UpperLetters ==
    <<"A", "B", "C", "D", "E", "F", "G", "H", "I", "J", "K", "L", "M",
      "N", "O", "P", "Q", "R", "S", "T", "U", "V", "W", "X", "Y", "Z",
      "É", "Ö">>
LowerLetters ==
    <<"a", "b", "c", "d", "e", "f", "g", "h", "i", "j", "k", "l", "m",
      "n", "o", "p", "q", "r", "s", "t", "u", "v", "w", "x", "y", "z",
      "é", "ö">>

\* the lowercase letter of each uppercase letter
CaseMap ==
    [c \in { UpperLetters[i] : i \in 1..Len(UpperLetters) } |->
        LowerLetters[CHOOSE i \in 1..Len(UpperLetters) : UpperLetters[i] = c]]

LowerChar(c) == IF c \in DOMAIN CaseMap THEN CaseMap[c] ELSE c

\* s.lower()
Lower(s) == [i \in 1..Len(s) |-> LowerChar(s[i])]

\* s.split('.')[-1]: what follows the last '.', the whole of s when it has none
SplitLast(s) ==
    LET dots == { i \in 1..Len(s) : s[i] = "." }
    IN  IF dots = {} THEN s
        ELSE LET last == CHOOSE i \in dots : \A j \in dots : j <= i
             IN  SubSeq(s, last + 1, Len(s))

\* s.startswith(prefix)
StartsWith(s, prefix) ==
    /\ Len(s) >= Len(prefix)
    /\ SubSeq(s, 1, Len(prefix)) = prefix

\* truthiness of an Optional[str]
Truthy(s) == s # None /\ s # <<>>

ImagePrefix == <<"i", "m", "a", "g", "e", "/">>

(***************************************************************************)
(* utils.py validate_image                                                 *)
(***************************************************************************)
\* utils.py:16  file.filename.lower().split('.')[-1] if file.filename else ''
FileExt(filename) == IF Truthy(filename) THEN SplitLast(Lower(filename)) ELSE <<>>

\* utils.py:17  f'.{file_ext}' not in ALLOWED_EXTENSIONS
ExtensionAllowed(filename) == (<<".">> \o FileExt(filename)) \in ALLOWED_EXTENSIONS

\* utils.py:24  not file.content_type or not file.content_type.startswith('image/')
ContentTypeOk(content_type) == Truthy(content_type) /\ StartsWith(content_type, ImagePrefix)

\* (variant) the size check rejects an upload of exactly MAX_FILE_SIZE
SizeOk_Exclusive(size) == size < MAX_FILE_SIZE

\* utils.py:32  len(file_content) > MAX_FILE_SIZE
SizeOk(size) == ~(size > MAX_FILE_SIZE)

Accepted == [status |-> 0, detail |-> "ok"]

\* (variant) the size check runs before the extension and content type checks
validate_image_SizeFirst(filename, content_type, size) ==
    IF size > MAX_FILE_SIZE
    THEN [status |-> 413, detail |-> "File too large"]
    ELSE IF ~((<<".">> \o (IF Truthy(filename) THEN SplitLast(Lower(filename)) ELSE << >>))
                \in ALLOWED_EXTENSIONS)
    THEN [status |-> 400, detail |-> "Unsupported file format"]
    ELSE IF ~(Truthy(content_type) /\ StartsWith(content_type, ImagePrefix))
    THEN [status |-> 400, detail |-> "Invalid content type"]
    ELSE Accepted

\* The checks of validate_image in the order of the code; the first failing one
\* raises HTTPException(status_code, detail).
validate_image(filename, content_type, size) ==
    IF ~ExtensionAllowed(filename)
    THEN [status |-> 400, detail |-> "Unsupported file format"]
    ELSE IF ~ContentTypeOk(content_type)
    THEN [status |-> 400, detail |-> "Invalid content type"]
    ELSE IF ~SizeOk(size)
    THEN [status |-> 413, detail |-> "File too large"]
    ELSE Accepted

\* (variant) validate_image returns without file.seek(0)
PositionAfterValidate_NoSeek(filename, content_type, size) ==
    IF ~ExtensionAllowed(filename) \/ ~ContentTypeOk(content_type) THEN 0 ELSE size

\* Read position of the upload after validate_image: file.read() (line 31) moves it
\* to the end, file.seek(0) (line 39) rewinds it; a rejection before line 31 leaves
\* it where it was and the size rejection leaves it at the end.
PositionAfterValidate(filename, content_type, size) ==
    IF ~ExtensionAllowed(filename) \/ ~ContentTypeOk(content_type) THEN 0
    ELSE IF ~SizeOk(size) THEN size
    ELSE 0

(***************************************************************************)
(* Uploads: the requests the environment sends.                            *)
(*   endpoint       "stream"  = POST /remove-background                    *)
(*                  "envelope" = POST /remove-background-base64            *)
(*   filename, content_type, size   the UploadFile                         *)
(*   content        what the external engine and codec do with the bytes:  *)
(*                  "image" (both succeed), "malformed" (remove() raises), *)
(*                  "undecodable" (remove() returns bytes that Image.open  *)
(*                  cannot read), "unencodable" (img.save raises)          *)
(*   encoded_len    length of the bytes the re-encode produces             *)
(*   output_format, quality   the form fields                              *)
(***************************************************************************)
Str_a_png   == <<"a", ".", "p", "n", "g">>
Str_b_JPG   == <<"b", ".", "J", "P", "G">>
Str_c_webp  == <<"c", ".", "t", "a", "r", ".", "w", "e", "b", "p">>
Str_d_gif   == <<"d", ".", "g", "i", "f">>
Str_photo   == <<"p", "h", "o", "t", "o">>
Str_png     == <<"p", "n", "g">>
Str_e_png_  == <<"e", ".", "p", "n", "g", ".">>
Str_f_exe   == <<"f", ".", "p", "n", "g", ".", "e", "x", "e">>
Str_dotTIFF == <<".", "T", "i", "F", "f">>

Ct_image_png  == <<"i", "m", "a", "g", "e", "/", "p", "n", "g">>
Ct_image      == <<"i", "m", "a", "g", "e">>
Ct_IMAGE_png  == <<"I", "M", "A", "G", "E", "/", "p", "n", "g">>
Ct_text_plain == <<"t", "e", "x", "t", "/", "p", "l", "a", "i", "n">>
Ct_image_     == <<"i", "m", "a", "g", "e", "/">>

Upload(ep, fn, ct, sz, c, el, fmt, q) ==
    [endpoint |-> ep, filename |-> fn, content_type |-> ct, size |-> sz,
     content |-> c, encoded_len |-> el, output_format |-> fmt, quality |-> q]

\* The uploads of the pool specification: all pass validation, so that every
\* request competes for a pool slot.
PoolUploads ==
    << Upload("stream",   Str_a_png,  Ct_image_png, 8, "image",       5,  "PNG",  95),
       Upload("envelope", Str_b_JPG,  Ct_image_png, 8, "image",       12, "WEBP", 50),
       Upload("stream",   Str_c_webp, Ct_image_,    3, "malformed",   0,  "WEBP", 100),
       Upload("envelope", Str_a_png,  Ct_image_png, 9, "undecodable", 0,  "PNG",  95) >>

Str_g_jpeg  == <<"g", ".", "j", "p", "e", "g">>
Str_h_BmP   == <<"h", ".", "B", "m", "P">>
Str_E_PNG   == <<"É", ".", "P", "N", "G">>
Str_a_JPEG  == <<"a", ".", "J", "P", "É", "G">>

GateFilenames ==
    { None, << >>, Str_a_png, Str_b_JPG, Str_c_webp, Str_d_gif, Str_photo, Str_png,
      Str_e_png_, Str_f_exe, Str_dotTIFF, Str_g_jpeg, Str_h_BmP, Str_E_PNG,
      Str_a_JPEG }

GateContentTypes ==
    { None, << >>, Ct_image_png, Ct_image, Ct_IMAGE_png, Ct_text_plain, Ct_image_ }

\* size, content and encoded_len of the bytes: empty bytes are no image; the sizes
\* sit at the edges of MAX_FILE_SIZE
GateBodies ==
    { << 0, "malformed", 0 >>,
      << 1, "image", 1 >>, << 1, "image", 2 >>, << 1, "malformed", 0 >>,
      << 1, "undecodable", 0 >>, << 1, "unencodable", 0 >>,
      << MAX_FILE_SIZE, "image", 1 >>, << MAX_FILE_SIZE, "image", MAX_FILE_SIZE >>,
      << MAX_FILE_SIZE, "image", MAX_FILE_SIZE + 1 >>, << MAX_FILE_SIZE, "malformed", 0 >>,
      << MAX_FILE_SIZE + 1, "image", 1 >> }

GateOptions == { << "PNG", 95 >>, << "WEBP", 50 >>, << "WEBP", 100 >> }

\* The uploads of the gate specification: one request of every filename and
\* content type with every size, and one well-named request of every body and
\* every option, on both endpoints
GateUploads ==
    { Upload(ep, fn, ct, b[1], "image", 1, "PNG", 95) :
        ep \in {"stream", "envelope"}, fn \in GateFilenames, ct \in GateContentTypes,
        b \in GateBodies }
      \cup { Upload(ep, Str_a_png, Ct_image_png, b[1], b[2], b[3], o[1], o[2]) :
                ep \in {"stream", "envelope"}, b \in GateBodies, o \in GateOptions }

(***************************************************************************)
(* State                                                                   *)
(***************************************************************************)
VARIABLES
    phase,          \* lifecycle of the service: boot, starting, serving, failed,
                    \* stopping (inside executor.shutdown(wait=True)), stopped
    model_loads,    \* whether new_session('u2net') succeeds (environment)
    rembg_session,  \* main.py:79 the global engine handle, None or the session
    uploads,        \* the requests of this run: request id -> upload
    pc,             \* per request: received, awaiting (its unit of work),
                    \* rejected, completed, failed
    pos,            \* per request: read position of the UploadFile
    image_data,     \* per request: the bytes the handler read (length, content)
    work_queue,     \* executor._work_queue: units of work in FIFO order
    threads,        \* number of worker threads the executor has started
    idle_semaphore, \* executor._idle_semaphore: tokens left by finished work items
    releasing,      \* worker threads between the end of their work item and
                    \* the release of the idle semaphore
    shutdown,       \* executor._shutdown
    stage,          \* per unit of work: idle, queued, new_session, remove
                    \* (inside the engine call), reencode, done
    future,         \* per unit of work: the future run_in_executor awaits
    response,       \* per request: the response sent
    probes,         \* GET /health requests the environment has still to send
    health,         \* the answer to the latest GET /health
    preflights,     \* OPTIONS requests the environment has still to send
    preflight,      \* the answer to the latest OPTIONS request
    sigterm,        \* whether the environment stops the service during the run
    engine_calls,   \* per request: calls of remove() made by its unit of work
    save_calls      \* per request: re-encodes (img.save) made by its unit of work

vars == << phase, model_loads, rembg_session, uploads, pc, pos, image_data,
           work_queue, threads, idle_semaphore, releasing, shutdown, stage, future,
           response, probes, health, preflights, preflight, sigterm,
           engine_calls, save_calls >>

Requests == DOMAIN uploads
\* unit 0 is the engine-initialisation task of startup_event; unit r is the
\* process_image_sync call of request r
InitUnit == 0
Units == {InitUnit} \cup Requests

Session == "u2net"
NoSession == "None"

Pending == [state |-> "PENDING", len |-> 0, error |-> ""]
Result(n) == [state |-> "FINISHED", len |-> n, error |-> ""]
\* (variant) an exception of the work item is not set on its future
Raised_Lost(e) == Pending
Raised(e) == [state |-> "FINISHED", len |-> 0, error |-> e]
Resolved(u) == future[u].state = "FINISHED"

NoResponse == [shape |-> "none"]
NoData == [len |-> 0, content |-> "none"]

RunningStages == {"new_session", "remove", "reencode"}
Running == { u \in Units : stage[u] \in RunningStages }
\* the worker threads that are not waiting for the work queue
Busy == Cardinality(Running) + releasing

InitCommon ==
    /\ phase = "boot"
    /\ model_loads \in BOOLEAN
    /\ rembg_session = NoSession
    /\ pc = [r \in Requests |-> "received"]
    /\ pos = [r \in Requests |-> 0]
    /\ image_data = [r \in Requests |-> NoData]
    /\ work_queue = << >>
    /\ threads = 0
    /\ idle_semaphore = 0
    /\ releasing = 0
    /\ shutdown = FALSE
    /\ stage = [u \in Units |-> "idle"]
    /\ future = [u \in Units |-> Pending]
    /\ response = [r \in Requests |-> NoResponse]
    /\ engine_calls = [r \in Requests |-> 0]
    /\ save_calls = [r \in Requests |-> 0]

\* A run of the service receives either n concurrent valid requests, which
\* compete for the pool (the pool uploads in turn), or one request of any shape.
PoolRun(n) == [r \in 1..n |-> PoolUploads[((r - 1) % Len(PoolUploads)) + 1]]
PoolRuns == { PoolRun(NumRequests) }
GateRuns == [{1} -> GateUploads]
\* A probed run receives one valid request and NumProbes GET /health requests.
ProbeRuns == [{1} -> { PoolUploads[i] : i \in 1..Len(PoolUploads) }]

\* A preflight run receives one valid request and NumProbes OPTIONS requests.
PreflightRuns == [{1} -> { PoolUploads[1] }]

\* A ratio run receives one valid request on the envelope endpoint: of every
\* small upload size with every output size up to one byte more, and of the
\* sizes at which (1 - output_size / original_size) * 100 falls halfway between
\* two hundredths with the output sizes below them.
TieSizes == {32, 160}
RatioSizes ==
    { <<sz, el>> : sz \in 1..MaxSize, el \in 1..(MaxSize + 1) }
      \cup { <<sz, sz - d>> : sz \in TieSizes, d \in (0 - 1)..MaxSize }
RatioRuns ==
    [{1} -> { Upload("envelope", Str_a_png, Ct_image_png, p[1], "image", p[2], "PNG", 95) :
                p \in RatioSizes }]

\* the runs with GET /health or OPTIONS requests next to the upload
InitProbed ==
    \/ uploads \in ProbeRuns /\ probes = NumProbes /\ preflights = 0
    \/ uploads \in PreflightRuns /\ probes = 0 /\ preflights = NumProbes

\* Every run may be stopped by the environment at any moment of serving.
Init ==
    /\ \/ /\ uploads \in PoolRuns \cup GateRuns \cup RatioRuns
          /\ probes = 0 /\ preflights = 0
       \/ InitProbed
    /\ sigterm = TRUE
    /\ health = NoResponse
    /\ preflight = NoResponse
    /\ InitCommon

\* The runs of the liveness specification: NumRequests concurrent requests on a
\* service that is left running, max_workers concurrent requests on a service
\* that the environment stops, and the probed runs.
InitLive ==
    /\ \/ /\ uploads \in PoolRuns /\ sigterm = FALSE
          /\ probes = 0 /\ preflights = 0
       \/ /\ uploads = PoolRun(max_workers) /\ sigterm = TRUE
          /\ probes = 0 /\ preflights = 0
       \/ InitProbed /\ sigterm = TRUE
    /\ health = NoResponse
    /\ preflight = NoResponse
    /\ InitCommon

(***************************************************************************)
(* concurrent.futures.ThreadPoolExecutor as main.py:80 configures it       *)
(***************************************************************************)
\* _adjust_thread_count: self._idle_semaphore.acquire(timeout=0) takes an idle
\* token when there is one
AcquireIdle(idle) ==
    [acquired |-> idle > 0, idle |-> IF idle > 0 THEN idle - 1 ELSE idle]

\* (variant) the thread count is adjusted without the max_workers cap
AdjustThreadCount_Uncapped(n, acquired) ==
    IF ~acquired THEN n + 1 ELSE n

\* submit() starts a new worker thread only when it got no idle token and fewer
\* than max_workers threads exist
AdjustThreadCount(n, acquired) ==
    IF ~acquired /\ n < max_workers THEN n + 1 ELSE n

\* (variant) a worker thread takes the newest item of the work queue
Dequeue_Newest(q) == [unit |-> q[Len(q)], rest |-> SubSeq(q, 1, Len(q) - 1)]

\* a worker thread takes the oldest item of the work queue
Dequeue(q) == [unit |-> Head(q), rest |-> Tail(q)]

\* submit() appends the item to the work queue
Enqueue(q, u) == Append(q, u)

\* every slot of the pool is executing a unit of work
Saturated == Cardinality(Running) = max_workers

(***************************************************************************)
(* main.py process_image_sync, the external engine and codec               *)
(***************************************************************************)
\* (variant) the unit of work loads the engine again and stores the new handle
SessionAfterUnit_Reload(session) == "u2net-reloaded"

\* main.py:349-355  process_image_sync declares the global handle and only reads
\* it: the handle after a unit of work started is the handle before
SessionAfterUnit(session) == session

\* main.py:351  the unit of work refuses to run without the engine handle
SessionMissing(session) == session = NoSession

\* main.py:355  remove(image_data, session=rembg_session) raises on bytes that
\* are no image
EngineRaises(data) == data.content = "malformed" \/ data.len = 0

\* main.py:358  Image.open(io.BytesIO(output_image)) raises on bytes it cannot
\* identify, before any save
OpenRaises(data) == data.content = "undecodable"

\* main.py:367-383  img.save raises
SaveRaises(data) == data.content = "unencodable"

(***************************************************************************)
(* Response assembly                                                       *)
(***************************************************************************)
\* len(base64.b64encode(b)) for len(b) = n
B64Len(n) == 4 * ((n + 2) \div 3)

(***************************************************************************)
(* Python float arithmetic (IEEE 754 binary64, round to nearest, ties to   *)
(* even) on the operands of main.py:307.  A natural number is a sequence   *)
(* of binary digits, most significant first; a float is a record           *)
(* [m, e] of value m * 2^e whose m has at most Precision significant       *)
(* digits.                                                                 *)
(***************************************************************************)
\* significant binary digits of a Python float
Precision == 53
\* binary digits of a quotient computed before rounding: more than Precision
\* plus the leading zeros of 1 / MAX_FILE_SIZE
QuotientDigits == 84
\* binary digits of a quotient computed in one step: a remainder below
\* MAX_FILE_SIZE times 2^QuotientStep is a machine integer of the checker
QuotientStep == 7
\* binary digits multiplied in one step
LimbDigits == 20

Bits == Seq({0, 1})
Float == [m : Bits, e : Int]

\* the natural number n < 2^k as k binary digits
Digits[n \in Nat, k \in Nat] == << >> \o [i \in 1..k |-> (n \div 2^(k - i)) % 2]

BitsToNat[b \in Bits] ==
    IF b = << >> THEN 0
    ELSE IF Len(b) = 1 THEN b[1]
    ELSE BitsToNat[SubSeq(b, 1, Len(b) \div 2)] * 2^(Len(b) - Len(b) \div 2)
           + BitsToNat[SubSeq(b, Len(b) \div 2 + 1, Len(b))]

\* b without its leading zeros
Strip[b \in Bits] ==
    IF \A i \in DOMAIN b : b[i] = 0 THEN << >>
    ELSE SubSeq(b, CHOOSE i \in DOMAIN b : b[i] = 1 /\ \A j \in 1..(i - 1) : b[j] = 0,
                Len(b))

\* k zeros
Zeros[k \in Nat] == << >> \o [i \in 1..k |-> 0]

\* b + 1
Inc[b \in Bits] ==
    IF \A i \in DOMAIN b : b[i] = 1 THEN <<1>> \o Zeros[Len(b)]
    ELSE LET last == CHOOSE i \in DOMAIN b : b[i] = 0 /\ \A j \in (i + 1)..Len(b) : b[j] = 1
         IN  << >> \o [i \in DOMAIN b |-> IF i < last THEN b[i] ELSE IF i = last THEN 1 ELSE 0]

\* the digits 1 - b[i]
Complement[b \in Bits] == << >> \o [i \in DOMAIN b |-> 1 - b[i]]

\* the digits kept of a number whose further digits are rest, rounded to nearest,
\* ties to even
RoundHalfEven[kept \in Bits, rest \in Bits] ==
    IF /\ rest # << >>
       /\ rest[1] = 1
       /\ \/ \E i \in 2..Len(rest) : rest[i] = 1
          \/ kept # << >> /\ kept[Len(kept)] = 1
    THEN Inc[kept]
    ELSE kept

\* the float nearest to b * 2^e, for b without leading zeros
Nearest[b \in Bits, e \in Int] ==
    IF Len(b) <= Precision THEN [m |-> b, e |-> e]
    ELSE [m |-> RoundHalfEven[SubSeq(b, 1, Precision), SubSeq(b, Precision + 1, Len(b))],
          e |-> e + Len(b) - Precision]

\* the float nearest to bits * 2^e
RoundSig[bits \in Bits, e \in Int] == Nearest[Strip[bits], e]

\* the first k binary digits of r / o after the point, for r < o, followed by a
\* digit that tells whether further digits are not all zero
Quotient[r \in Nat, o \in Nat, k \in Nat] ==
    IF k <= 0 THEN << IF r = 0 THEN 0 ELSE 1 >>
    ELSE Digits[(r * 2^QuotientStep) \div o, QuotientStep]
           \o Quotient[(r * 2^QuotientStep) % o, o, k - QuotientStep]

\* b * c + carry for natural numbers c and carry below 2^7
Times[b \in Bits, c \in Nat, carry \in Nat] ==
    IF Len(b) <= LimbDigits THEN Digits[BitsToNat[b] * c + carry, LimbDigits + 7]
    ELSE Times[SubSeq(b, 1, Len(b) - LimbDigits), c,
               (BitsToNat[SubSeq(b, Len(b) - LimbDigits + 1, Len(b))] * c + carry)
                  \div 2^LimbDigits]
           \o Digits[(BitsToNat[SubSeq(b, Len(b) - LimbDigits + 1, Len(b))] * c + carry)
                        % 2^LimbDigits, LimbDigits]

\* b / 2^s for b without leading zeros, rounded to the nearest natural number,
\* ties to even
NearestNat[b \in Bits, s \in Nat] ==
    IF Len(b) < s THEN 0
    ELSE BitsToNat[RoundHalfEven[SubSeq(b, 1, Len(b) - s),
                                 SubSeq(b, Len(b) - s + 1, Len(b))]]

\* output_size / original_size for output_size < original_size
FloatDiv[n \in Nat, o \in Nat] ==
    RoundSig[Quotient[n, o, QuotientDigits], 0 - (QuotientDigits + 1)]

\* 1 - x for a float 0 <= x < 1
OneMinus[x \in Float] ==
    RoundSig[Inc[Complement[Zeros[(0 - x.e) - Len(x.m)] \o x.m]], x.e]

\* x * 100
TimesHundred[x \in Float] == RoundSig[Times[x.m, 100, 0], x.e]

\* round(x, 2) for a float 0 <= x <= 100, in hundredths: Python rounds the exact
\* value of the float, ties to even
RoundTwoDecimals[x \in Float] == NearestNat[Strip[Times[x.m, 100, 0]], 0 - x.e]

\* (variant) the ratio is computed without the guard output_size < original_size
compression_ratio_Unguarded(original_size, output_size) ==
    IF output_size < original_size
    THEN RoundTwoDecimals[TimesHundred[OneMinus[FloatDiv[output_size, original_size]]]]
    ELSE 0 - ((100 * (output_size - original_size)) \div original_size) * 100

\* main.py:307  round((1 - output_size / original_size) * 100, 2) if
\* output_size < original_size else 0, in hundredths of a percent
compression_ratio(original_size, output_size) ==
    IF output_size < original_size
    THEN RoundTwoDecimals[TimesHundred[OneMinus[FloatDiv[output_size, original_size]]]]
    ELSE 0

\* the structured error FastAPI sends for a raised HTTPException; detail is the
\* fixed text of the message, cause the str(e) or e.detail put after it
HTTPException(status_code, detail, cause) ==
    [shape |-> "error", status |-> status_code, detail |-> detail, cause |-> cause]

\* main.py:209-222
StreamingResponse(up, data, n) ==
    [shape |-> "stream", status |-> 200,
     media_type |-> IF up.output_format = "PNG" THEN "image/png" ELSE "image/webp",
     body_len |-> n, x_original_size |-> data.len, x_output_size |-> n,
     x_output_format |-> up.output_format]

\* main.py:304  output_format.lower(), for the Literal["PNG", "WEBP"] of the form
FormatLower(output_format) == IF output_format = "PNG" THEN "png" ELSE "webp"

\* main.py:299-308
SuccessEnvelope(up, data, n) ==
    [shape |-> "envelope", status |-> 200, success |-> TRUE,
     message |-> "Background removed successfully", cause |-> "",
     b64len |-> B64Len(n), output_format |-> FormatLower(up.output_format),
     original_size |-> data.len, output_size |-> n,
     compression_ratio |-> compression_ratio(data.len, n)]

\* main.py:313-322 and 326-335
FailureEnvelope(message, cause) ==
    [shape |-> "envelope", status |-> 200, success |-> FALSE, message |-> message,
     cause |-> cause, b64len |-> 0, output_format |-> "", original_size |-> 0, output_size |-> 0,
     compression_ratio |-> 0]

\* (variant) the handler has no "except HTTPException" clause, so a rejection of
\* validate_image falls into "except Exception"
ValidationResponse_Generic(endpoint, v) ==
    IF endpoint = "stream" THEN HTTPException(500, "Background removal failed", v.detail)
    ELSE FailureEnvelope("Background removal failed", v.detail)

\* main.py:224-226 / 310-322: an HTTPException raised by validate_image
ValidationResponse(endpoint, v) ==
    IF endpoint = "stream" THEN HTTPException(v.status, v.detail, "")
    ELSE FailureEnvelope("Validation failed", v.detail)

\* models.py:4-7  HealthResponse(status="healthy", message=..., version="1.0.1")
HealthResponse ==
    [shape |-> "health", status |-> 200, health |-> "healthy",
     message |-> "All services are operational - Ready to process images",
     version |-> "1.0.1"]

\* (variant) health_check does not look at the executor
health_check_SessionOnly(session, sd) ==
    IF session = NoSession
    THEN HTTPException(503, "Service unavailable", "Rembg session not initialized")
    ELSE HealthResponse

\* main.py:112-133  health_check
health_check(session, sd) ==
    IF session = NoSession
    THEN HTTPException(503, "Service unavailable", "Rembg session not initialized")
    ELSE IF sd
    THEN HTTPException(503, "Service unavailable", "Thread executor is shutdown")
    ELSE HealthResponse

\* (variant) the envelope handler re-raises a processing failure as the streaming
\* handler does
FailureResponse_Raise(endpoint, cause) ==
    HTTPException(500, "Background removal failed", cause)

\* main.py:227-233 / 323-335: any other exception
FailureResponse(endpoint, cause) ==
    IF endpoint = "stream" THEN HTTPException(500, "Background removal failed", cause)
    ELSE FailureEnvelope("Background removal failed", cause)

\* (variant) both endpoints stream the processed image
SuccessResponse_Stream(up, data, n) == StreamingResponse(up, data, n)

\* main.py:199-222 / 287-308: the unit of work returned n bytes
SuccessResponse(up, data, n) ==
    IF up.endpoint = "stream" THEN StreamingResponse(up, data, n)
    ELSE SuccessEnvelope(up, data, n)

(***************************************************************************)
(* Actions                                                                 *)
(***************************************************************************)
\* the event loop runs request handlers while the service serves, and again once
\* shutdown_event returned; inside executor.shutdown(wait=True) it is blocked
LoopRuns == phase \in {"serving", "stopped"}

\* executor.submit(unit): queue the item and adjust the thread count, taking an
\* idle token when there is one
ExecutorSubmit(u) ==
    LET a == AcquireIdle(idle_semaphore)
    IN  /\ work_queue' = Enqueue(work_queue, u)
        /\ idle_semaphore' = a.idle
        /\ threads' = AdjustThreadCount(threads, a.acquired)
        /\ stage' = [stage EXCEPT ![u] = "queued"]

\* main.py:83-94  startup_event up to the await: submits new_session('u2net')
StartupSubmit ==
    /\ phase = "boot"
    /\ phase' = "starting"
    /\ ExecutorSubmit(InitUnit)
    /\ UNCHANGED << model_loads, rembg_session, uploads, probes, health,
                    engine_calls, save_calls, pc, pos, image_data, shutdown,
                    releasing, future, response,
                    preflights, preflight, sigterm >>

\* a worker thread takes the next work item and starts running it; for a request
\* unit this is process_image_sync up to the call of remove() (main.py:349-355)
Admit ==
    /\ work_queue # << >>
    /\ Busy < threads
    /\ LET d == Dequeue(work_queue)
           u == d.unit
       IN  /\ work_queue' = d.rest
           /\ IF u = InitUnit
              THEN /\ stage' = [stage EXCEPT ![u] = "new_session"]
                   /\ UNCHANGED << future, rembg_session, engine_calls, releasing >>
              ELSE /\ rembg_session' = SessionAfterUnit(rembg_session)
                   /\ IF SessionMissing(rembg_session)
                      THEN /\ stage' = [stage EXCEPT ![u] = "done"]
                           /\ future' = [future EXCEPT
                                           ![u] = Raised("Rembg session not initialized")]
                           /\ releasing' = releasing + 1
                           /\ UNCHANGED engine_calls
                      ELSE /\ stage' = [stage EXCEPT ![u] = "remove"]
                           /\ engine_calls' = [engine_calls EXCEPT ![u] = @ + 1]
                           /\ UNCHANGED << future, releasing >>
    /\ UNCHANGED << phase, model_loads, uploads, probes, health, save_calls, pc,
                    pos, image_data, threads, idle_semaphore, shutdown, response,
                    preflights, preflight, sigterm >>

\* the worker thread whose work item has finished (its future is resolved)
\* releases the idle semaphore and goes back to the work queue
WorkerRelease ==
    /\ releasing > 0
    /\ releasing' = releasing - 1
    /\ idle_semaphore' = idle_semaphore + 1
    /\ UNCHANGED << phase, model_loads, rembg_session, uploads, probes, health,
                    engine_calls, save_calls, pc, pos, image_data, work_queue,
                    threads, shutdown, stage, future, response,
                    preflights, preflight, sigterm >>

\* main.py:93  new_session('u2net') returns or raises on its pool thread
NewSessionReturn ==
    /\ stage[InitUnit] = "new_session"
    /\ stage' = [stage EXCEPT ![InitUnit] = "done"]
    /\ future' = [future EXCEPT ![InitUnit] =
                    IF model_loads THEN Result(0) ELSE Raised("EngineInitError")]
    /\ releasing' = releasing + 1
    /\ UNCHANGED << phase, model_loads, rembg_session, uploads, probes, health,
                    engine_calls, save_calls, pc, pos, image_data, work_queue,
                    threads, idle_semaphore, shutdown, response,
                    preflights, preflight, sigterm >>

\* (variant) startup_event logs the failure of new_session() and returns
PhaseAfterStartup_Swallow(error) == "serving"

\* main.py:96-101  startup_event returns, or re-raises the failure of
\* new_session() as RuntimeError, which aborts the application startup
PhaseAfterStartup(error) == IF error = "" THEN "serving" ELSE "failed"

\* main.py:91-101  startup_event after the await: the handle is assigned, or the
\* failure is re-raised as RuntimeError and the service does not start
StartupResume ==
    /\ phase = "starting"
    /\ Resolved(InitUnit)
    /\ phase' = PhaseAfterStartup(future[InitUnit].error)
    /\ IF future[InitUnit].error = ""
       THEN rembg_session' = Session
       ELSE UNCHANGED rembg_session
    /\ UNCHANGED << model_loads, uploads, probes, health, engine_calls,
                    save_calls, pc, pos, image_data, work_queue, threads,
                    idle_semaphore, releasing, shutdown, stage, future, response,
                    preflights, preflight, sigterm >>

\* (variant) submit() accepts work on an executor that was shut down
SubmitRefused_Never(sd) == FALSE

\* main.py:194 / 282  run_in_executor calls executor.submit(), which raises
\* RuntimeError('cannot schedule new futures after shutdown') once
\* executor.shutdown() was called
SubmitRefused(sd) == sd

\* await file.read(): the bytes from the read position to the end
ReadFile(up, p) ==
    [len |-> up.size - p, content |-> IF p = 0 THEN up.content ELSE "malformed"]

\* The handler of a request runs on the event loop up to each await that
\* suspends it: file.read() and file.seek(0) of an UploadFile go through a thread
\* pool of the framework (for an upload the framework holds in memory they may
\* return at once, which is the run in which the steps below follow each other
\* directly), and run_in_executor suspends until the unit of work is done.
\* While a handler is suspended the event loop runs the handlers of the other
\* requests, in any order: the unit of a request that arrived later may be
\* submitted first.
Prologue == {"received", "validating", "rewinding", "validated"}

\* utils.py:31  validate_image reaches file.read() when neither check before it
\* raised
ReachesRead(filename, content_type) ==
    ExtensionAllowed(filename) /\ ContentTypeOk(content_type)

\* main.py:179-186 / 267-274, utils.py:16-31  the handler enters validate_image:
\* a failed extension or content type check raises HTTPException, which the
\* handler answers at once (224-226 / 310-322); otherwise validate_image awaits
\* file.read()
Validate(r) ==
    /\ LoopRuns
    /\ pc[r] = "received"
    /\ LET up == uploads[r]
           v  == validate_image(up.filename, up.content_type, up.size)
           p  == PositionAfterValidate(up.filename, up.content_type, up.size)
       IN  IF ~ReachesRead(up.filename, up.content_type)
           THEN /\ pc' = [pc EXCEPT ![r] = "rejected"]
                /\ pos' = [pos EXCEPT ![r] = p]
                /\ response' = [response EXCEPT ![r] = ValidationResponse(up.endpoint, v)]
           ELSE /\ pc' = [pc EXCEPT ![r] = "validating"]
                /\ UNCHANGED << pos, response >>
    /\ UNCHANGED << phase, model_loads, rembg_session, uploads, probes, health,
                    engine_calls, save_calls, image_data, work_queue, threads,
                    idle_semaphore, releasing, shutdown, stage, future,
                    preflights, preflight, sigterm >>

\* utils.py:31-39  file.read() returned the whole upload: an oversize upload is
\* rejected, and answered at once; otherwise validate_image awaits file.seek(0)
MeasureSize(r) ==
    /\ LoopRuns
    /\ pc[r] = "validating"
    /\ LET up == uploads[r]
           v  == validate_image(up.filename, up.content_type, up.size)
           p  == PositionAfterValidate(up.filename, up.content_type, up.size)
       IN  IF v # Accepted
           THEN /\ pc' = [pc EXCEPT ![r] = "rejected"]
                /\ pos' = [pos EXCEPT ![r] = p]
                /\ response' = [response EXCEPT ![r] = ValidationResponse(up.endpoint, v)]
           ELSE /\ pc' = [pc EXCEPT ![r] = "rewinding"]
                /\ pos' = [pos EXCEPT ![r] = up.size]
                /\ UNCHANGED response
    /\ UNCHANGED << phase, model_loads, rembg_session, uploads, probes, health,
                    engine_calls, save_calls, image_data, work_queue, threads,
                    idle_semaphore, releasing, shutdown, stage, future,
                    preflights, preflight, sigterm >>

\* utils.py:39, main.py:186-189 / 274-277  file.seek(0) returned and with it
\* validate_image; the handler awaits file.read()
ValidateReturn(r) ==
    /\ LoopRuns
    /\ pc[r] = "rewinding"
    /\ LET up == uploads[r]
       IN  pos' = [pos EXCEPT
                     ![r] = PositionAfterValidate(up.filename, up.content_type, up.size)]
    /\ pc' = [pc EXCEPT ![r] = "validated"]
    /\ UNCHANGED << phase, model_loads, rembg_session, uploads, probes, health,
                    engine_calls, save_calls, image_data, work_queue, threads,
                    idle_semaphore, releasing, shutdown, stage, future, response,
                    preflights, preflight, sigterm >>

\* main.py:189-197 / 277-285  file.read() returned the bytes from the read
\* position on; the handler submits its unit of work and awaits it.  submit() on
\* an executor that was shut down raises RuntimeError, which is answered as a
\* processing failure (227-233 / 323-335).
Submit(r) ==
    /\ LoopRuns
    /\ pc[r] = "validated"
    /\ LET up == uploads[r]
       IN  /\ image_data' = [image_data EXCEPT ![r] = ReadFile(up, pos[r])]
           /\ pos' = [pos EXCEPT ![r] = up.size]
           /\ IF SubmitRefused(shutdown)
              THEN /\ pc' = [pc EXCEPT ![r] = "failed"]
                   /\ response' = [response EXCEPT
                                     ![r] = FailureResponse(up.endpoint,
                                              "cannot schedule new futures after shutdown")]
                   /\ UNCHANGED << work_queue, threads, idle_semaphore, stage >>
              ELSE /\ pc' = [pc EXCEPT ![r] = "awaiting"]
                   /\ ExecutorSubmit(r)
                   /\ UNCHANGED response
    /\ UNCHANGED << phase, model_loads, rembg_session, uploads, probes, health,
                    engine_calls, save_calls, releasing, shutdown, future,
                    preflights, preflight, sigterm >>

\* (variant) the handlers keep image_data, output_format and quality in module
\* globals, so that a unit of work runs on those of the request handled last
UnitArgs_Shared(r) ==
    LET read == { q \in Requests : image_data[q] # NoData }
        last == CHOOSE q \in read : \A p \in read : p <= q
    IN  [image_data |-> image_data[last], upload |-> uploads[last]]

\* main.py:196 / 284  lambda: process_image_sync(image_data, output_format,
\* quality) closes over the locals of the handler of request r
UnitArgs(r) == [image_data |-> image_data[r], upload |-> uploads[r]]

\* (variant) process_image_sync calls remove() again when it raised
StageAfterRemove_Retry(raises) == IF raises THEN "remove" ELSE "reencode"

\* main.py:355-358  an exception of remove() leaves process_image_sync (it has no
\* try and no loop); a returned image goes on to the re-encode
StageAfterRemove(raises) == IF raises THEN "done" ELSE "reencode"

\* main.py:355  remove(image_data, session=rembg_session) returns or raises on the
\* pool thread of unit r
RemoveReturn(r) ==
    /\ r \in Requests
    /\ stage[r] = "remove"
    /\ LET next == StageAfterRemove(EngineRaises(UnitArgs(r).image_data))
       IN  /\ stage' = [stage EXCEPT ![r] = next]
           /\ future' = [future EXCEPT ![r] =
                           IF next = "done" THEN Raised("EngineRuntimeError") ELSE @]
           /\ releasing' = IF next = "done" THEN releasing + 1 ELSE releasing
           /\ engine_calls' = [engine_calls EXCEPT ![r] =
                                 IF next = "remove" THEN @ + 1 ELSE @]
    /\ UNCHANGED << phase, model_loads, rembg_session, uploads, probes, health,
                    save_calls, pc, pos, image_data, work_queue, threads,
                    idle_semaphore, shutdown, response,
                    preflights, preflight, sigterm >>

\* main.py:358-385  the pool thread decodes the result (Image.open, which may
\* raise before img.save is reached), converts it to RGBA and saves it as PNG or
\* WEBP, which raises or yields the output bytes
Reencode(r) ==
    /\ r \in Requests
    /\ stage[r] = "reencode"
    /\ stage' = [stage EXCEPT ![r] = "done"]
    /\ future' = [future EXCEPT ![r] =
                    IF OpenRaises(UnitArgs(r).image_data)
                    THEN Raised("UnidentifiedImageError")
                    ELSE IF SaveRaises(UnitArgs(r).image_data)
                    THEN Raised("CodecError")
                    ELSE Result(UnitArgs(r).upload.encoded_len)]
    /\ save_calls' = [save_calls EXCEPT ![r] =
                        IF OpenRaises(UnitArgs(r).image_data) THEN @ ELSE @ + 1]
    /\ releasing' = releasing + 1
    /\ UNCHANGED << phase, model_loads, rembg_session, uploads, probes, health,
                    engine_calls, pc, pos, image_data, work_queue, threads,
                    idle_semaphore, shutdown, response,
                    preflights, preflight, sigterm >>

\* main.py:199-233 / 287-335  the handler resumes with the outcome of its unit
Respond(r) ==
    /\ LoopRuns
    /\ pc[r] = "awaiting"
    /\ Resolved(r)
    /\ IF future[r].error = ""
       THEN /\ pc' = [pc EXCEPT ![r] = "completed"]
            /\ response' = [response EXCEPT
                              ![r] = SuccessResponse(uploads[r], image_data[r], future[r].len)]
       ELSE /\ pc' = [pc EXCEPT ![r] = "failed"]
            /\ response' = [response EXCEPT
                              ![r] = FailureResponse(uploads[r].endpoint, future[r].error)]
    /\ UNCHANGED << phase, model_loads, rembg_session, uploads, probes, health,
                    engine_calls, save_calls, pos, image_data, work_queue,
                    threads, idle_semaphore, releasing, shutdown, stage, future,
                    preflights, preflight, sigterm >>

\* main.py:111-133  GET /health: the coroutine runs whenever the event loop is
\* free, that is once startup_event awaits and not inside
\* executor.shutdown(wait=True)
HealthCheck ==
    /\ phase \in {"starting", "serving", "stopped"}
    /\ probes > 0
    /\ probes' = probes - 1
    /\ health' = health_check(rembg_session, shutdown)
    /\ UNCHANGED << phase, model_loads, rembg_session, uploads, pc, pos,
                    image_data, work_queue, threads, idle_semaphore, releasing,
                    shutdown, stage, future, response, engine_calls, save_calls,
                    preflights, preflight, sigterm >>

\* main.py:140, 145  the body both OPTIONS handlers return, answered with 200
OptionsResponse(path) ==
    [shape |-> "options", status |-> 200, path |-> path, message |-> "OK"]

\* main.py:137-140  OPTIONS /remove-background: the coroutine runs whenever the
\* event loop is free and returns the constant body
remove_background_options ==
    /\ phase \in {"starting", "serving", "stopped"}
    /\ preflights > 0
    /\ preflights' = preflights - 1
    /\ preflight' = OptionsResponse("/remove-background")
    /\ UNCHANGED << phase, model_loads, rembg_session, uploads, pc, pos,
                    image_data, work_queue, threads, idle_semaphore, releasing,
                    shutdown, stage, future, response, probes, health,
                    engine_calls, save_calls, sigterm >>

\* main.py:142-145  OPTIONS /remove-background-base64
remove_background_base64_options ==
    /\ phase \in {"starting", "serving", "stopped"}
    /\ preflights > 0
    /\ preflights' = preflights - 1
    /\ preflight' = OptionsResponse("/remove-background-base64")
    /\ UNCHANGED << phase, model_loads, rembg_session, uploads, pc, pos,
                    image_data, work_queue, threads, idle_semaphore, releasing,
                    shutdown, stage, future, response, probes, health,
                    engine_calls, save_calls, sigterm >>

\* main.py:104-107  the environment stops the service: shutdown_event enters
\* executor.shutdown(wait=True)
ShutdownBegin ==
    /\ sigterm
    /\ phase = "serving"
    /\ phase' = "stopping"
    /\ shutdown' = TRUE
    /\ UNCHANGED << model_loads, rembg_session, uploads, probes, health,
                    engine_calls, save_calls, pc, pos, image_data, work_queue,
                    threads, idle_semaphore, releasing, stage, future, response,
                    preflights, preflight, sigterm >>

\* (variant) executor.shutdown(wait=False) returns at once
ShutdownReturns_NoWait(queue, busy) == TRUE

\* main.py:107  executor.shutdown(wait=True) joins the worker threads, which exit
\* once the work queue is empty and the item each of them runs has finished
ShutdownReturns(queue, busy) == queue = << >> /\ busy = 0

\* main.py:107-108  executor.shutdown(wait=True) returns once the worker threads
\* have run every queued item and exited
ShutdownEnd ==
    /\ phase = "stopping"
    /\ ShutdownReturns(work_queue, Busy)
    /\ phase' = "stopped"
    /\ threads' = 0
    /\ UNCHANGED << model_loads, rembg_session, uploads, probes, health,
                    engine_calls, save_calls, pc, pos, image_data, work_queue,
                    idle_semaphore, releasing, shutdown, stage, future, response,
                    preflights, preflight, sigterm >>

Next ==
    \/ StartupSubmit
    \/ Admit
    \/ WorkerRelease
    \/ NewSessionReturn
    \/ StartupResume
    \/ \E r \in Requests : Validate(r)
    \/ \E r \in Requests : MeasureSize(r)
    \/ \E r \in Requests : ValidateReturn(r)
    \/ \E r \in Requests : Submit(r)
    \/ \E r \in Requests : RemoveReturn(r)
    \/ \E r \in Requests : Reencode(r)
    \/ \E r \in Requests : Respond(r)
    \/ HealthCheck
    \/ remove_background_options
    \/ remove_background_base64_options
    \/ ShutdownBegin
    \/ ShutdownEnd

Spec == Init /\ [][Next]_vars

\* Scheduling: the pool works while it has work (a free worker thread takes the
\* next queued item; the calls of new_session(), remove() and the re-encode
\* terminate; a worker that finished an item returns to the queue), and the
\* event loop runs while something is ready (it resumes a coroutine whose future
\* has resolved, and executor.shutdown(wait=True) returns once the worker
\* threads exited).  Nothing forces a request to arrive, a probe to be sent or
\* the service to be shut down.
Fairness ==
    /\ WF_vars(\/ Admit
               \/ WorkerRelease
               \/ NewSessionReturn
               \/ \E r \in Requests : RemoveReturn(r)
               \/ \E r \in Requests : Reencode(r))
    /\ WF_vars(\/ StartupResume
               \/ \E r \in Requests : Respond(r)
               \/ ShutdownEnd)

LiveSpec == InitLive /\ [][Next]_vars /\ Fairness

(***************************************************************************)
(* Properties                                                              *)
(***************************************************************************)
\* the event loop has started the handler of request r
Entered(r) == pc[r] # "received"
\* the handler of request r has run up to the await of its unit of work or to
\* its response
Handled(r) == pc[r] \notin Prologue
\* request r has been answered
Responded(r) == response[r] # NoResponse
\* the unit of work of request r was submitted to the pool
Submitted(r) == stage[r] # "idle"
\* the unit of work of request r left the queue and started executing
Started(r) == stage[r] \in {"remove", "reencode", "done"}
\* the units inside the engine call remove(image_data, session=rembg_session)
InEngine == { r \in Requests : stage[r] = "remove" }

\* C1: in every state the number of units of work executing in the pool, the
\* engine-initialisation task included, is at most the capacity max_workers = 4:
\* each executes on a worker thread of its own, and the executor never has more
\* than max_workers threads.
PoolCapacityRespected ==
    /\ Cardinality(Running) <= max_workers
    /\ Busy <= threads
    /\ threads <= max_workers

\* C1 witness: all four slots execute a unit while a further unit waits.
PoolSaturatedWithBacklog ==
    /\ Cardinality(Running) = max_workers
    /\ work_queue # << >>

\* C2: at most one unit of work is inside the engine call at any instant.
EngineCallsExclusive == Cardinality(InEngine) <= 1

\* u1 is ahead of u2 in queue q
Ahead(q, u1, u2) ==
    \E i \in 1..Len(q) : \E j \in 1..Len(q) : i < j /\ q[i] = u1 /\ q[j] = u2
InQueue(q, u) == \E i \in 1..Len(q) : q[i] = u

\* C3: units are admitted into execution in the order of their submission: a
\* newly submitted unit is placed behind every unit already waiting, waiting
\* units never change places, and a unit leaves the queue to execute only when
\* no unit submitted before it is still waiting.
FifoAdmission ==
    [][ /\ work_queue' # work_queue =>
              /\ \A i \in 1..Len(work_queue) : \A j \in (i + 1)..Len(work_queue) :
                    /\ ~Ahead(work_queue', work_queue[j], work_queue[i])
                    /\ ~InQueue(work_queue', work_queue[j]) =>
                          ~InQueue(work_queue', work_queue[i])
              /\ \A i \in 1..Len(work_queue') : \A j \in 1..Len(work_queue') :
                    ( /\ work_queue'[i] # work_queue'[j]
                      /\ InQueue(work_queue, work_queue'[i])
                      /\ ~InQueue(work_queue, work_queue'[j]) )
                    => i < j
        /\ \A u \in Units :
              (stage[u] \in {"idle", "queued"} /\ stage'[u] \notin {"idle", "queued"})
              => InQueue(work_queue, u) /\ ~InQueue(work_queue', u)
      ]_vars

\* C3 witness: every worker thread of the full pool is occupied (three run a unit
\* of work, the fourth has not yet returned from the startup task) and two units
\* wait, one submitted before the other.
TwoUnitsQueuedBehindFullPool ==
    /\ threads = max_workers
    /\ Busy = max_workers
    /\ Len(work_queue) >= 2
    /\ stage[InitUnit] = "done"

\* C4: a request whose unit of work waits for a slot of a saturated pool is not
\* left waiting on the pool: while every slot stays occupied its handler can
\* still end the wait and answer the request (as ServiceBusy), that is, a step of
\* the handler is enabled without any unit of work making progress.
QueuedWaitIsBounded ==
    \A r \in Requests :
        (pc[r] = "awaiting" /\ stage[r] = "queued" /\ Saturated /\ LoopRuns)
        => ENABLED Respond(r)

\* the filename has an extension (text after a last '.') of the allow-set,
\* compared without regard to case
HasAllowedExtension(filename) ==
    /\ Truthy(filename)
    /\ \E i \in 1..Len(filename) : filename[i] = "."
    /\ (<<".">> \o SplitLast(Lower(filename))) \in ALLOWED_EXTENSIONS

\* the response of request r reports the rejection of validate_image with detail d
\* and status code st
RejectedWith(r, st, d) ==
    /\ pc[r] = "rejected"
    /\ IF uploads[r].endpoint = "stream"
       THEN response[r] = HTTPException(st, d, "")
       ELSE response[r] = FailureEnvelope("Validation failed", d)

\* C5: every handled upload whose filename has no extension of the allow-set (no
\* extension at all and no filename included) is rejected as unsupported format
\* (400) and its unit of work is never submitted.
UnsupportedExtensionRejected ==
    \A r \in Requests :
        (Handled(r) /\ ~HasAllowedExtension(uploads[r].filename))
        => RejectedWith(r, 400, "Unsupported file format") /\ ~Submitted(r)

\* C6 as stated: every handled upload longer than 10 MiB is rejected as payload
\* too large (413) and never reaches the engine.
OversizeAlwaysPayloadTooLarge ==
    \A r \in Requests :
        (Handled(r) /\ uploads[r].size > MAX_FILE_SIZE)
        => RejectedWith(r, 413, "File too large") /\ ~Submitted(r)

\* C6 amended: every handled upload longer than 10 MiB is rejected and never
\* reaches the pool or the engine, on either endpoint; the rejection is payload
\* too large (413) when the extension and content type checks pass and the 400 of
\* the earlier failing check otherwise; an upload of exactly 10 MiB that passes
\* those two checks is not rejected.
OversizeRejectedBeforeEngine ==
    \A r \in Requests :
        LET up == uploads[r]
            early == ExtensionAllowed(up.filename) /\ ContentTypeOk(up.content_type)
        IN  /\ (Handled(r) /\ up.size > MAX_FILE_SIZE)
               => /\ pc[r] = "rejected"
                  /\ ~Submitted(r)
                  /\ early => RejectedWith(r, 413, "File too large")
                  /\ ~early => \E d \in {"Unsupported file format", "Invalid content type"} :
                                  RejectedWith(r, 400, d)
            /\ (Handled(r) /\ up.size = MAX_FILE_SIZE /\ early) => pc[r] # "rejected"

\* C6 witness: an upload of 10 MiB + 1 bytes with an allowed extension and an
\* image content type was rejected with 413 on the envelope endpoint.
OversizeRejectedWith413 ==
    \E r \in Requests :
        /\ uploads[r].size = MAX_FILE_SIZE + 1
        /\ uploads[r].endpoint = "envelope"
        /\ ExtensionAllowed(uploads[r].filename)
        /\ ContentTypeOk(uploads[r].content_type)
        /\ RejectedWith(r, 413, "File too large")
        /\ ~Submitted(r)

\* C7: validate_image checks extension, then content type, then size and stops
\* at the first failure; an upload passing the three checks is accepted.
ValidationOrder ==
    \A r \in Requests :
        LET up == uploads[r]
            extOk == ExtensionAllowed(up.filename)
            ctOk == ContentTypeOk(up.content_type)
            szOk == up.size <= MAX_FILE_SIZE
        IN  Handled(r) =>
              /\ ~extOk => RejectedWith(r, 400, "Unsupported file format")
              /\ (extOk /\ ~ctOk) => RejectedWith(r, 400, "Invalid content type")
              /\ (extOk /\ ctOk /\ ~szOk) => RejectedWith(r, 413, "File too large")
              /\ (extOk /\ ctOk /\ szOk) => pc[r] # "rejected"

\* C7 witness: an upload with a bad extension, no image content type and more
\* than 10 MiB was rejected for its extension.
RejectedForEarliestCheck ==
    \E r \in Requests :
        /\ ~ExtensionAllowed(uploads[r].filename)
        /\ ~ContentTypeOk(uploads[r].content_type)
        /\ uploads[r].size > MAX_FILE_SIZE
        /\ RejectedWith(r, 400, "Unsupported file format")

\* C8: POST /remove-background-base64 answers every handled request with the
\* envelope (HTTP 200); after a validation rejection, a failed pool submission or
\* a raising unit of work the envelope has success=false, an empty base64_image,
\* sizes 0 and ratio 0; success=true only when the unit of work returned bytes.
EnvelopeNeverErrors ==
    \A r \in Requests :
        (uploads[r].endpoint = "envelope" /\ Responded(r)) =>
            /\ response[r].shape = "envelope"
            /\ response[r].status = 200
            /\ pc[r] \in {"rejected", "failed", "completed"}
            /\ pc[r] \in {"rejected", "failed"} =>
                  /\ response[r].success = FALSE
                  /\ response[r].b64len = 0
                  /\ response[r].original_size = 0
                  /\ response[r].output_size = 0
                  /\ response[r].compression_ratio = 0
            /\ response[r].success = TRUE =>
                  /\ pc[r] = "completed"
                  /\ stage[r] = "done"
                  /\ future[r] = Result(uploads[r].encoded_len)

\* C8 witness: the engine raised for an envelope request and the failure envelope
\* was returned.
EnvelopeFailureAfterEngineError ==
    \E r \in Requests :
        /\ uploads[r].endpoint = "envelope"
        /\ future[r] = Raised("EngineRuntimeError")
        /\ Responded(r)
        /\ response[r].shape = "envelope"
        /\ response[r].success = FALSE

\* C9: POST /remove-background answers a validation rejection for extension or
\* content type with 400, an oversize rejection with 413 and every exception of
\* the unit of work with 500; a rejection is never a 500 and a processing failure
\* never a 4xx or a stream.
StreamStatusByClass ==
    \A r \in Requests :
        (uploads[r].endpoint = "stream" /\ Responded(r)) =>
            LET up == uploads[r]
                early == ExtensionAllowed(up.filename) /\ ContentTypeOk(up.content_type)
            IN  /\ pc[r] \in {"rejected", "failed", "completed"}
                /\ pc[r] = "rejected" =>
                      /\ response[r].shape = "error"
                      /\ response[r].status = IF early THEN 413 ELSE 400
                /\ pc[r] = "failed" =>
                      /\ response[r].shape = "error"
                      /\ response[r].status = 500
                /\ (Resolved(r) /\ future[r].error # "") => pc[r] = "failed"
                /\ response[r].shape = "stream" =>
                      /\ response[r].status = 200
                      /\ pc[r] = "completed"
                      /\ future[r] = Result(up.encoded_len)

\* C9 witness: the re-encode raised for a streaming request and it was answered
\* with 500.
StreamFailureAfterCodecError ==
    \E r \in Requests :
        /\ uploads[r].endpoint = "stream"
        /\ future[r] = Raised("CodecError")
        /\ response[r] = HTTPException(500, "Background removal failed", "CodecError")

\* C10: the engine handle is assigned once, by startup_event, before any
\* request's unit of work exists, and never changes afterwards; every unit of
\* work that started ran with that handle.
EngineHandleAssignedOnce ==
    /\ [][ rembg_session' # rembg_session =>
              /\ rembg_session = NoSession
              /\ rembg_session' = Session
              /\ phase = "starting" /\ phase' = "serving"
              /\ \A r \in Requests : ~Entered(r) /\ ~Submitted(r) ]_vars
    /\ [](\A r \in Requests : Started(r) => rembg_session = Session)

\* C10 witness: one unit of work finished and another is inside the engine call,
\* both under the handle startup_event assigned.
UnitsShareTheHandle ==
    \E r1 \in Requests : \E r2 \in Requests :
        /\ future[r1] = Result(uploads[r1].encoded_len)
        /\ stage[r2] = "remove"
        /\ rembg_session = Session

\* C11: when new_session() fails, startup_event raises: the service is failed for
\* good, it never serves, the engine handle stays absent, no request is handled
\* and no unit of work of a request is submitted or executed.
FailedStartupIsFatal ==
    /\ [](phase = "failed" =>
            /\ rembg_session = NoSession
            /\ future[InitUnit] = Raised("EngineInitError")
            /\ \A r \in Requests :
                  ~Entered(r) /\ ~Submitted(r) /\ ~Responded(r) /\ future[r] = Pending)
    /\ [][phase = "failed" => phase' = "failed"]_vars
    /\ []((Resolved(InitUnit) /\ future[InitUnit].error # "") => phase \in {"starting", "failed"})

\* C11 witness: the model failed to load and startup_event raised.
StartupFailed ==
    /\ phase = "failed"
    /\ ~model_loads
    /\ future[InitUnit] = Raised("EngineInitError")

\* C12: shutdown_event returns only when the pool is drained (no unit of work is
\* queued or running, every submitted unit has resolved and no worker thread is
\* left or busy), and a unit of work that is running never sees the engine handle absent:
\* the handle is not released while, or before, the pool drains.
ShutdownDrainsPool ==
    /\ phase = "stopped" =>
          /\ work_queue = << >>
          /\ Running = {}
          /\ Busy = 0
          /\ threads = 0
          /\ \A u \in Units : Submitted(u) => (stage[u] = "done" /\ Resolved(u))
    /\ \A r \in Requests : stage[r] \in {"remove", "reencode"} => rembg_session = Session
    /\ phase \in {"stopping", "stopped"} => rembg_session = Session

\* C12 witness: shutdown_event returned after a drain: a unit of work resolved
\* whose handler could not resume before executor.shutdown(wait=True) returned.
StoppedAfterDrain ==
    /\ phase = "stopped"
    /\ \E r \in Requests : pc[r] = "awaiting" /\ Resolved(r) /\ future[r].error = ""

\* the failure response of the endpoint of request r for a refused submission
RefusedResponse(r) ==
    FailureResponse(uploads[r].endpoint, "cannot schedule new futures after shutdown")

\* C13: once executor.shutdown() was called no unit of work enters the pool: a
\* request whose handler leaves validation or reaches the submission afterwards is
\* answered in that step, with the rejection of validate_image or with the
\* failure response of its endpoint (500 on the streaming endpoint, the envelope
\* with success=false on the other), its unit of work is never queued and never
\* runs, and the work queue does not grow.
NoAdmissionAfterShutdown ==
    /\ [][ \A r \in Requests :
              /\ (shutdown /\ pc[r] = "validated" /\ pc'[r] # "validated") =>
                    pc'[r] = "failed"
              /\ (shutdown /\ pc[r] \in Prologue /\ pc'[r] \notin Prologue) =>
                    /\ pc'[r] \in {"rejected", "failed"}
                    /\ stage'[r] = "idle"
                    /\ Responded(r)'
                    /\ pc'[r] = "failed" =>
                          /\ response'[r] = RefusedResponse(r)
                          /\ response'[r].shape =
                                IF uploads[r].endpoint = "stream" THEN "error" ELSE "envelope"
                          /\ uploads[r].endpoint = "stream" => response'[r].status = 500
                          /\ uploads[r].endpoint = "envelope" => response'[r].success = FALSE
              /\ (shutdown /\ stage[r] = "idle") => stage'[r] = "idle"
          ]_vars
    /\ [][ shutdown => Len(work_queue') <= Len(work_queue) ]_vars
    /\ [][ shutdown => shutdown' ]_vars

\* C13 witness: a valid upload posted to the envelope endpoint after shutdown was
\* refused by the pool and answered with success=false; its unit never ran.
RefusedAfterShutdown ==
    \E r \in Requests :
        /\ shutdown
        /\ uploads[r].endpoint = "envelope"
        /\ pc[r] = "failed"
        /\ stage[r] = "idle"
        /\ future[r] = Pending
        /\ response[r] = RefusedResponse(r)

\* C14: every answer of GET /health is healthy (200) exactly when, at the moment
\* of the call, the engine handle is initialised and the executor was not shut
\* down, and it is the 503 error otherwise.
HealthReflectsReadiness ==
    [][ probes' # probes =>
          /\ health'.status \in {200, 503}
          /\ health'.status = 200 <=> (rembg_session = Session /\ ~shutdown)
          /\ health'.status = 200 => (health'.shape = "health" /\ health'.health = "healthy")
          /\ (rembg_session = NoSession \/ shutdown) =>
                (health'.shape = "error" /\ health'.status = 503)
      ]_vars

\* C14 witness: GET /health was answered with 503 because the executor was shut
\* down while the engine handle was initialised.
UnhealthyAfterShutdown ==
    /\ shutdown
    /\ rembg_session = Session
    /\ health = HTTPException(503, "Service unavailable", "Thread executor is shutdown")

\* Request states in the words of the specification:
\*   Received = "received", Validating = the checks of the first step and
\*   "validating" / "rewinding", Rejected = "rejected", Validated = "validated",
\*   Queued/Running = "awaiting" with the unit of work queued / executing,
\*   Completed = "completed", Failed = "failed"; Responded is the response
\*   being set.
TerminalStates == {"rejected", "completed", "failed"}
PathEdges ==
    { <<"received", "rejected">>, <<"received", "validating">>,
      <<"validating", "rejected">>, <<"validating", "rewinding">>,
      <<"rewinding", "validated">>, <<"validated", "awaiting">>,
      <<"awaiting", "completed">>, <<"awaiting", "failed">> }
\* the edge of a validated request whose submission the pool refuses
RefusedEdge == <<"validated", "failed">>
UnitEdges ==
    { <<"idle", "queued">>, <<"queued", "remove">>, <<"queued", "done">>,
      <<"remove", "reencode">>, <<"remove", "done">>, <<"reencode", "done">> }
ShapesOf(endpoint) == IF endpoint = "stream" THEN {"stream", "error"} ELSE {"envelope"}

\* one step of the system seen from request r, with the given request edges
LifecycleStep(r, edges) ==
    LET up == uploads[r]
        accepted == validate_image(up.filename, up.content_type, up.size) = Accepted
    IN  /\ pc'[r] # pc[r] => << pc[r], pc'[r] >> \in edges
        /\ stage'[r] # stage[r] => << stage[r], stage'[r] >> \in UnitEdges
        \* validation comes before the queue, and decides between Rejected and the rest
        /\ (stage[r] = "idle" /\ stage'[r] = "queued") =>
              (pc[r] = "validated" /\ pc'[r] = "awaiting" /\ accepted)
        /\ (pc[r] # "rejected" /\ pc'[r] = "rejected") => ~accepted
        /\ (pc[r] = "validating" /\ pc'[r] # "validating") =>
              (pc'[r] = "rejected" <=> ~accepted)
        /\ pc'[r] = "validated" => accepted
        \* Completed and Failed after Running: the unit of work has resolved
        /\ (pc[r] = "awaiting" /\ pc'[r] # "awaiting") =>
              /\ stage[r] = "done" /\ Resolved(r)
              /\ pc'[r] = "completed" <=> future[r].error = ""
        \* exactly one response, sent on reaching the terminal state
        /\ response'[r] # response[r] =>
              (response[r] = NoResponse /\ pc[r] \notin TerminalStates
                 /\ pc'[r] \in TerminalStates)
        /\ pc'[r] \in TerminalStates =>
              /\ response'[r] # NoResponse
              /\ response'[r].shape \in ShapesOf(up.endpoint)
              /\ response'[r].shape = "stream" <=> (up.endpoint = "stream" /\ pc'[r] = "completed")
        /\ pc'[r] \notin TerminalStates => response'[r] = NoResponse

\* C15 as stated: every request follows Received -> Validating -> {Rejected |
\* Validated} -> Queued -> Running -> {Completed | Failed} -> Responded, so that a
\* request fails only after its unit of work was queued and ran.
RequestFollowsPath ==
    [][ \A r \in Requests : LifecycleStep(r, PathEdges) ]_vars

\* C15 amended: every request follows that path, or goes from Validated to Failed
\* at once when the pool refuses the submission; it reaches at most one terminal
\* state and never leaves it, is queued only after validate_image accepted it, and
\* gets exactly one response, of the shape of its endpoint.
RequestFollowsPathOrIsRefused ==
    [][ \A r \in Requests : LifecycleStep(r, PathEdges \cup {RefusedEdge}) ]_vars

\* C15 witness: in one run a request completed, one failed after its unit of work
\* ran, and one failed without ever being queued; all three were answered.
AllPathsTaken ==
    \E r1 \in Requests : \E r2 \in Requests : \E r3 \in Requests :
        /\ pc[r1] = "completed" /\ stage[r1] = "done" /\ Responded(r1)
        /\ pc[r2] = "failed" /\ stage[r2] = "done" /\ Responded(r2)
        /\ pc[r3] = "failed" /\ stage[r3] = "idle" /\ Responded(r3)

\* the requests validate_image accepted
ValidatedStates == {"validated", "awaiting", "completed", "failed"}
Validated(r) == pc[r] \in ValidatedStates
\* the exceptions of a unit of work that leave process_image_sync before img.save
RaisedBeforeSave == {"EngineRuntimeError", "UnidentifiedImageError"}

\* C16: a validated request has one unit of work (none when the pool refused the
\* submission) and no other request has any; a unit calls remove() once when it
\* starts and never again, saves once after remove() returned an image that
\* Image.open could read and not at all after remove() or Image.open raised, and
\* keeps its failure; so the engine is invoked at most once per validated request
\* in total.
OneEngineCallPerUnit ==
    /\ \A r \in Requests :
          /\ Submitted(r) => Validated(r)
          /\ (Validated(r) /\ ~Submitted(r)) =>
                (pc[r] = "validated" \/ response[r] = RefusedResponse(r))
          /\ Cardinality({ i \in 1..Len(work_queue) : work_queue[i] = r }) =
                (IF stage[r] = "queued" THEN 1 ELSE 0)
          /\ engine_calls[r] = (IF Started(r) THEN 1 ELSE 0)
          /\ save_calls[r] =
                (IF stage[r] = "done" /\ future[r].error \notin RaisedBeforeSave
                 THEN 1 ELSE 0)
          /\ (Resolved(r) /\ future[r].error # "") => stage[r] = "done"
          /\ engine_calls[r] <= (IF Validated(r) THEN 1 ELSE 0)
          /\ save_calls[r] <= engine_calls[r]

\* C16 witness: a unit whose engine call raised and a unit whose decode raised
\* have both ended, each with one engine call and no save, while a third unit
\* succeeded with one of each.
FailedUnitsRanOnce ==
    \E r1 \in Requests : \E r2 \in Requests : \E r3 \in Requests :
        /\ future[r1] = Raised("EngineRuntimeError")
        /\ engine_calls[r1] = 1 /\ save_calls[r1] = 0
        /\ future[r2] = Raised("UnidentifiedImageError")
        /\ engine_calls[r2] = 1 /\ save_calls[r2] = 0
        /\ future[r3].error = "" /\ Resolved(r3)
        /\ engine_calls[r3] = 1 /\ save_calls[r3] = 1

\* no unit of work is submitted and unresolved, and no request awaits its unit
Settled ==
    /\ \A u \in Units : Submitted(u) => (stage[u] = "done" /\ Resolved(u))
    /\ \A r \in Requests : pc[r] # "awaiting"

\* C17: under the scheduling assumptions, whenever a unit of work (the engine
\* initialisation included) is queued or running, or a request awaits its unit,
\* a state follows in which every submitted unit has resolved to a result or a
\* failure and every such request has been answered; units stay submitted and
\* answers stay, so each unit resolves and each request is answered.  This holds
\* with more concurrent requests than pool slots and whether or not the service
\* is shut down meanwhile.
EveryUnitResolves == (~Settled) ~> Settled

\* C17 witness: with more requests than slots, the last request, whose unit had
\* to wait for a slot, has been answered after its unit resolved.
LastRequestAnswered ==
    /\ NumRequests > max_workers
    /\ NumRequests \in Requests
    /\ Resolved(NumRequests)
    /\ Responded(NumRequests)
    /\ \A r \in Requests : Responded(r)

\* C18: in every success envelope compression_ratio (in hundredths of a percent)
\* is 0 when the output is not smaller than the input and otherwise the float
\* (1 - output_size/original_size) * 100 rounded to two decimals: it lies within
\* half a hundredth of the exact quotient, between 0 and 100; it is never
\* negative, and the quotient is taken only for original_size > 0.
RatioIsGuardedAndRounded ==
    \A r \in Requests :
        (response[r].shape = "envelope" /\ response[r].success) =>
            LET o == response[r].original_size
                n == response[r].output_size
                c == response[r].compression_ratio
            IN  /\ c >= 0
                /\ n >= o => c = 0
                /\ n < o =>
                      /\ o > 0
                      /\ c <= 10000
                      /\ o <= 100000 =>
                            LET d == c * o - 10000 * (o - n)
                                e == IF d < 0 THEN 0 - d ELSE d
                            IN  2 * e <= o

\* C18 witness: a success envelope for an output of 153 bytes of an upload of
\* 160, whose exact ratio 4.375 lies halfway between two hundredths: the float
\* product lies below it and is rounded to 4.37.
RatioRoundedOnTie ==
    \E r \in Requests :
        /\ response[r].shape = "envelope" /\ response[r].success
        /\ response[r].original_size = 160
        /\ response[r].output_size = 153
        /\ response[r].compression_ratio = 437

\* the input of a request: its bytes (length, content and what the deterministic
\* engine and codec make of them) and its options
InputOf(r) ==
    << uploads[r].size, uploads[r].content, uploads[r].encoded_len,
       uploads[r].output_format, uploads[r].quality >>

\* what the deterministic engine and codec yield for the input of request r alone
OutcomeAlone(r) ==
    IF uploads[r].content = "malformed" \/ uploads[r].size = 0
    THEN Raised("EngineRuntimeError")
    ELSE IF uploads[r].content = "undecodable" THEN Raised("UnidentifiedImageError")
    ELSE IF uploads[r].content = "unencodable" THEN Raised("CodecError")
    ELSE Result(uploads[r].encoded_len)

\* C19: the outcome of a unit of work is the one its own input bytes and options
\* determine, whatever other requests are handled before, after or during it; so
\* two requests with the same input and options end with the same output and, on
\* the same endpoint, the same response.
OutputDependsOnOwnInput ==
    /\ \A r \in Requests : Resolved(r) => future[r] = OutcomeAlone(r)
    /\ \A r1 \in Requests : Resolved(r1) =>
          \A r2 \in Requests :
              (r1 < r2 /\ Resolved(r2) /\ InputOf(r1) = InputOf(r2)) =>
                  /\ future[r1] = future[r2]
                  /\ (Responded(r1) /\ Responded(r2) /\ uploads[r1] = uploads[r2])
                        => response[r1] = response[r2]

\* C19 witness: two requests with the same input and options were processed, with
\* a request of another input handled between them, and both were answered with
\* the same output bytes.
SameInputSameOutput ==
    \E r1 \in Requests : \E r2 \in Requests : \E r3 \in Requests :
        /\ r1 < r3 /\ r3 < r2
        /\ uploads[r1] = uploads[r2]
        /\ InputOf(r3) # InputOf(r1)
        /\ Resolved(r3)
        /\ pc[r1] = "completed" /\ pc[r2] = "completed"
        /\ response[r1] = response[r2]
        /\ response[r1].shape = "stream"

\* C20: for an upload validate_image accepted, the position it leaves is the
\* start, the bytes the handler read and passed to the unit of work are the whole
\* upload, and a success response reports the upload's byte length as original
\* size; for a rejected upload nothing but its read position and its response
\* has changed.
ValidationLeavesUploadWhole ==
    \A r \in Requests :
        LET up == uploads[r]
        IN  /\ pc[r] = "validated" =>
                  /\ pos[r] = 0
                  /\ image_data[r] = NoData
            /\ (Validated(r) /\ Handled(r)) =>
                  /\ image_data[r].len = up.size
                  /\ image_data[r].content = up.content
                  /\ pos[r] = up.size
            /\ (pc[r] = "completed" /\ up.endpoint = "envelope") =>
                  response[r].original_size = up.size
            /\ (pc[r] = "completed" /\ up.endpoint = "stream") =>
                  response[r].x_original_size = up.size
            /\ pc[r] = "rejected" =>
                  /\ image_data[r] = NoData
                  /\ stage[r] = "idle" /\ future[r] = Pending
                  /\ engine_calls[r] = 0 /\ save_calls[r] = 0
                  /\ pos[r] \in {0, up.size}

\* C20 witness: an upload of exactly 10 MiB was accepted, read whole and answered
\* with a success envelope reporting 10 MiB as original size.
WholeUploadProcessed ==
    \E r \in Requests :
        /\ uploads[r].size = MAX_FILE_SIZE
        /\ pc[r] = "completed"
        /\ image_data[r].len = MAX_FILE_SIZE
        /\ response[r].shape = "envelope"
        /\ response[r].original_size = MAX_FILE_SIZE
====
